---------------------------- MODULE Spec2Model ----------------------------
(***************************************************************************)
(* A model of hobo.py: the fixed-offset time zone TZFixedOffset, the       *)
(* timestamp parser, and the HoboCSVReader session (header scan, record    *)
(* iteration, unzip, scoped release).                                      *)
(*                                                                         *)
(* Text is a sequence of one-character strings, so that substring search,  *)
(* slicing, stripping and number parsing are computed character by         *)
(* character, as the Python code and its library calls compute them.       *)
(* Python's None is the empty tuple and a present value v is <<v>>.        *)
(***************************************************************************)
EXTENDS Integers, Sequences, FiniteSets, TLC

None == <<>>
Some(v) == <<v>>

\* F(x) with x evaluated once: LET v == x IN F(v)
With(x, F(_)) == CHOOSE y \in {F(v) : v \in {x}} : TRUE

(***************************************************************************)
(* Bounds of the model.                                                    *)
(***************************************************************************)
MaxBody == 2          \* body lines of a session's file
MaxLines == 3         \* lines of a file given to the header scan alone
MaxCloseCalls == 2    \* calls of __exit__ on one session

(***************************************************************************)
(* Text helpers: the str operations the code uses.                         *)
(***************************************************************************)
Digits == <<"0","1","2","3","4","5","6","7","8","9">>

IsDigit(c) == \E i \in 1..10 : Digits[i] = c

DigitVal(c) == (CHOOSE i \in 1..10 : Digits[i] = c) - 1

IsSpace(c) == c \in {" ", "\t", "\n", "\r"}

\* sub in s
Contains(sub, s) ==
    \E i \in 1..(Len(s) - Len(sub) + 1) : SubSeq(s, i, i + Len(sub) - 1) = sub

\* s[a:b] with 0-based, end-exclusive, clamped bounds (a, b >= 0)
Slice(s, a, b) ==
    LET lo == IF a > Len(s) THEN Len(s) ELSE a
        hi == IF b > Len(s) THEN Len(s) ELSE b
    IN  SubSeq(s, lo + 1, hi)

\* s.strip()
StripAt(s, keep) ==
    IF keep = {} THEN <<>>
    ELSE SubSeq(s, CHOOSE i \in keep : \A j \in keep : i <= j,
                   CHOOSE i \in keep : \A j \in keep : i >= j)

Strip(s) == With({i \in 1..Len(s) : ~IsSpace(s[i])}, LAMBDA keep : StripAt(s, keep))

\* the value of a run of decimal digits
RECURSIVE DigitsVal(_)
DigitsVal(s) ==
    IF s = <<>> THEN 0
    ELSE 10 * DigitsVal(SubSeq(s, 1, Len(s) - 1)) + DigitVal(s[Len(s)])

IsDigits(s) == Len(s) > 0 /\ \A i \in 1..Len(s) : IsDigit(s[i])

\* int(t) for a str t without surrounding whitespace
IntOf(t) ==
    LET signed == Len(t) > 0 /\ t[1] \in {"+", "-"}
        body == IF signed THEN SubSeq(t, 2, Len(t)) ELSE t
    IN  IF IsDigits(body)
        THEN [ok |-> TRUE,
              v |-> IF signed /\ t[1] = "-" THEN 0 - DigitsVal(body) ELSE DigitsVal(body)]
        ELSE [ok |-> FALSE, v |-> 0]

\* int(s) for a str s: surrounding whitespace stripped, optional sign
PyInt(s) == With(Strip(s), IntOf)

(***************************************************************************)
(* TZFixedOffset                                                           *)
(***************************************************************************)
GMT == <<"G","M","T">>

\* A constructor argument: a number, a str, or a value of another type.
NumArg(n) == [kind |-> "num", n |-> n, s |-> <<>>]
StrArg(s) == [kind |-> "str", n |-> 0, s |-> s]
OtherArg == [kind |-> "other", n |-> 0, s |-> <<>>]

\* TZFixedOffset.__init__: the offset_hrs it sets, or the ValueError it raises
TZFixedOffset(offset) ==
    IF offset.kind = "num" THEN [ok |-> TRUE, offset_hrs |-> offset.n]
    ELSE IF offset.kind = "str"
    THEN IF Len(offset.s) # 9 \/ Slice(offset.s, 0, 3) # GMT
            \/ Slice(offset.s, 7, Len(offset.s)) # <<"0","0">>
         THEN [ok |-> FALSE, offset_hrs |-> 0]
         ELSE With(PyInt(Slice(offset.s, 3, 6)),
                   LAMBDA h : [ok |-> h.ok, offset_hrs |-> h.v])
    ELSE [ok |-> FALSE, offset_hrs |-> 0]


\* '%+03d' % n, the body of TZFixedOffset.__str__ between 'GMT' and ':00'
RECURSIVE DecimalText(_)
DecimalText(n) ==
    IF n < 10 THEN <<Digits[n + 1]>>
    ELSE DecimalText(n \div 10) \o <<Digits[(n % 10) + 1]>>

TZStr(offset_hrs) ==
    LET mag == IF offset_hrs < 0 THEN 0 - offset_hrs ELSE offset_hrs
        d == DecimalText(mag)
    IN  GMT \o <<IF offset_hrs < 0 THEN "-" ELSE "+">>
            \o (IF Len(d) < 2 THEN <<"0">> ELSE <<>>) \o d \o <<":","0","0">>

\* TZFixedOffset defines neither __eq__ nor __hash__ and datetime.tzinfo
\* defines none: two instances compare by identity (object.__eq__).
TZEq(a, b) == a.id = b.id

(***************************************************************************)
(* csv.reader: the tokenizer of the default dialect (delimiter ',',        *)
(* quotechar '"', doublequote), reading one record from the lines that     *)
(* follow position ln - 1.  A quoted field that is open at the end of a    *)
(* line continues on the next line.                                        *)
(***************************************************************************)
RECURSIVE Tok(_, _, _, _, _, _, _)
Tok(lines, ln, i, st, field, fields, strict) ==
    LET line == lines[ln] IN
    IF i > Len(line)
    THEN CASE st = "START_RECORD" -> [fields |-> <<>>, last |-> ln, err |-> ""]
           [] st = "IN_QUOTED" ->
                IF ln < Len(lines)
                THEN Tok(lines, ln + 1, 1, st, Append(field, "\n"), fields, strict)
                ELSE IF strict
                THEN [fields |-> fields, last |-> ln, err |-> "unexpected end of data"]
                ELSE [fields |-> Append(fields, Append(field, "\n")), last |-> ln, err |-> ""]
           [] OTHER -> [fields |-> Append(fields, field), last |-> ln, err |-> ""]
    ELSE LET c == line[i] IN
         CASE st \in {"START_RECORD", "START_FIELD"} ->
                IF c = "\"" THEN Tok(lines, ln, i + 1, "IN_QUOTED", <<>>, fields, strict)
                ELSE IF c = ","
                THEN Tok(lines, ln, i + 1, "START_FIELD", <<>>, Append(fields, <<>>), strict)
                ELSE Tok(lines, ln, i + 1, "IN_FIELD", <<c>>, fields, strict)
           [] st = "IN_FIELD" ->
                IF c = ","
                THEN Tok(lines, ln, i + 1, "START_FIELD", <<>>, Append(fields, field), strict)
                ELSE Tok(lines, ln, i + 1, st, Append(field, c), fields, strict)
           [] st = "IN_QUOTED" ->
                IF c = "\"" THEN Tok(lines, ln, i + 1, "QUOTE_IN_QUOTED", field, fields, strict)
                ELSE Tok(lines, ln, i + 1, st, Append(field, c), fields, strict)
           [] OTHER -> \* QUOTE_IN_QUOTED
                IF c = "\"" THEN Tok(lines, ln, i + 1, "IN_QUOTED", Append(field, c), fields, strict)
                ELSE IF c = ","
                THEN Tok(lines, ln, i + 1, "START_FIELD", <<>>, Append(fields, field), strict)
                ELSE IF strict
                THEN [fields |-> fields, last |-> ln, err |-> "',' expected after '\"'"]
                ELSE Tok(lines, ln, i + 1, "IN_FIELD", Append(field, c), fields, strict)

\* next(csv.reader(f, strict=strict)) with f at position pos (lines consumed)
ReadRecord(lines, pos, strict) == Tok(lines, pos + 1, 1, "START_RECORD", <<>>, <<>>, strict)

(***************************************************************************)
(* HoboCSVReader: column resolution and header scan                        *)
(***************************************************************************)
\* the index (0-based) of the first field satisfying P, else None
FirstOf(hit) ==
    IF hit = {} THEN None
    ELSE Some((CHOOSE i \in hit : \A j \in hit : i <= j) - 1)

FirstIndex(headers, P(_)) == With({i \in 1..Len(headers) : P(headers[i])}, FirstOf)

find_col_timestamp(headers) ==
    LET P(h) == Contains(<<"D","a","t","e"," ","T","i","m","e">>, h)
    IN  FirstIndex(headers, P)

find_col_temperature(headers) ==
    LET P(h) == \/ Contains(<<"H","i","g","h"," ","R","e","s","."," ","T","e","m","p",".">>, h)
                \/ Contains(<<"H","i","g","h","-","R","e","s"," ","T","e","m","p">>, h)
        Q(h) == \/ Contains(<<"T","e","m","p",",">>, h)
                \/ Contains(<<"T","e","m","p",".">>, h)
                \/ Contains(<<"T","e","m","p","e","r","a","t","u","r","e">>, h)
    IN  With(FirstIndex(headers, P),
             LAMBDA hi : IF hi # None THEN hi ELSE FirstIndex(headers, Q))

find_col_rh(headers) ==
    LET P(h) == Contains(<<"R","H",",">>, h)
    IN  FirstIndex(headers, P)

find_col_battery(headers) ==
    LET P(h) == Contains(<<"B","a","t","t",","," ","V">>, h)
    IN  FirstIndex(headers, P)

\* _find_columns: all four indices are set anew from this one line
find_columns(self, header) ==
    With(Tok(<<header>>, 1, 1, "START_RECORD", <<>>, <<>>, FALSE).fields,
         LAMBDA headers :
            [self EXCEPT !.itimestamp = find_col_timestamp(headers),
                         !.itemp = find_col_temperature(headers),
                         !.irh = find_col_rh(headers),
                         !.ibatt = find_col_battery(headers)])

\* TZ_REGEX.search(header): the leftmost match of GMT[-+]\d\d:\d\d, else None
TZ_REGEX(header) ==
    LET M(i) == /\ SubSeq(header, i, i + 2) = GMT
                /\ header[i + 3] \in {"-", "+"}
                /\ IsDigit(header[i + 4]) /\ IsDigit(header[i + 5])
                /\ header[i + 6] = ":"
                /\ IsDigit(header[i + 7]) /\ IsDigit(header[i + 8])
        hit == {i \in 1..(Len(header) - 8) : M(i)}
    IN  IF hit = {} THEN None
        ELSE LET i == CHOOSE k \in hit : \A j \in hit : k <= j
             IN  Some(SubSeq(header, i, i + 8))

\* SN_REGEX.search(header).groups()[0]: the digits after the leftmost
\* 'LGR S/N: ' or 'Serial Number:' that a digit follows, else None
SN_REGEX(header) ==
    LET labels == {<<"L","G","R"," ","S","/","N",":"," ">>,
                   <<"S","e","r","i","a","l"," ","N","u","m","b","e","r",":">>}
        D(i) == {l \in labels : /\ i + Len(l) <= Len(header)
                                /\ SubSeq(header, i, i + Len(l) - 1) = l
                                /\ IsDigit(header[i + Len(l)])}
        hit == {i \in 1..Len(header) : D(i) # {}}
    IN  IF hit = {} THEN None
        ELSE LET i == CHOOSE k \in hit : \A j \in hit : k <= j
                 from == i + Len(CHOOSE l \in D(i) : TRUE)
                 to == CHOOSE e \in from..Len(header) :
                          /\ \A k \in from..e : IsDigit(header[k])
                          /\ e = Len(header) \/ ~IsDigit(header[e + 1])
             IN  Some(SubSeq(header, from, to))

\* One pass of the loop of _find_headers on line h: the title is the first
\* line read, the serial number the first one found, the columns this line's.
scan_line(self, h) ==
    LET s1 == IF self.title = None THEN [self EXCEPT !.title = Some(h)] ELSE self
        s2 == IF self.sn = None THEN [s1 EXCEPT !.sn = SN_REGEX(h)] ELSE s1
    IN  find_columns(s2, h)

\* a scan that goes on until the temperature column is resolved too
RECURSIVE find_headers_both(_, _, _, _)
find_headers_both(lines, pos, self, header) ==
    IF self.itimestamp # None /\ self.itemp # None
    THEN [self |-> self, pos |-> pos, header |-> header, exc |-> ""]
    ELSE IF pos >= Len(lines)
    THEN [self |-> self, pos |-> pos, header |-> header, exc |-> "StopIteration"]
    ELSE With(scan_line(self, lines[pos + 1]),
              LAMBDA s : find_headers_both(lines, pos + 1, s, lines[pos + 1]))

\* _find_headers: read lines while no timestamp column is resolved.
\* next(self._f) on an exhausted file raises StopIteration.
RECURSIVE find_headers(_, _, _, _)
find_headers(lines, pos, self, header) ==
    IF self.itimestamp # None
    THEN [self |-> self, pos |-> pos, header |-> header, exc |-> ""]
    ELSE IF pos >= Len(lines)
    THEN [self |-> self, pos |-> pos, header |-> header, exc |-> "StopIteration"]
    ELSE With(scan_line(self, lines[pos + 1]),
              LAMBDA s : find_headers(lines, pos + 1, s, lines[pos + 1]))

(***************************************************************************)
(* timestamp(s, tz): datetime.strptime against TIME_FMTS, first match wins *)
(***************************************************************************)
\* A format is a sequence of directives ("m", "d", "y", "Y", "H", "I", "M",
\* "S", "p") and literal characters ("/", "-", ":", " ").
TIME_FMTS ==
    << <<"m","/","d","/","y"," ","I",":","M",":","S"," ","p">>,
       <<"Y","-","m","-","d"," ","H",":","M",":","S">>,
       <<"m","/","d","/","Y"," ","H",":","M">> >>

\* the length of the run of characters satisfying P that starts at s[i]
RunLen(s, i, P(_)) ==
    With({n \in 0..(Len(s) - i + 1) : \A k \in i..(i + n - 1) : P(s[k])},
         LAMBDA runs : CHOOSE n \in runs : \A m \in runs : m <= n)

\* whether a digit run is what the directive's pattern accepts
DirectiveOk(d, run) ==
    LET n == Len(run)
        v == DigitsVal(run)
    IN  CASE d = "y" -> n = 2
          [] d = "Y" -> n = 4
          [] d \in {"m", "I"} -> n \in 1..2 /\ v \in 1..12
          [] d = "d" -> n \in 1..2 /\ v \in 1..31
          [] d = "H" -> n \in 1..2 /\ v \in 0..23
          [] d = "M" -> n \in 1..2 /\ v \in 0..59
          [] OTHER -> n \in 1..2 /\ v \in 0..61     \* "S"

\* the longest prefix of a digit run the directive takes: four digits for
\* %Y, two for the others (a longer run leaves digits unconverted)
DirectiveTake(d, n) ==
    LET w == IF d = "Y" THEN 4 ELSE 2
    IN  IF n > w THEN w ELSE n

\* Match s from position i against the rest of the format; got maps the
\* directives matched so far to their values.  ok is FALSE when strptime
\* raises ValueError for a mismatch or for unconverted data.
RECURSIVE StrpMatch(_, _, _, _, _)
StrpMatch(s, i, fmt, k, got) ==
    IF k > Len(fmt) THEN [ok |-> i > Len(s), got |-> got]
    ELSE LET d == fmt[k] IN
         IF d = "p"
         THEN IF /\ i + 1 <= Len(s)
                 /\ s[i] \in {"A", "a", "P", "p"}
                 /\ s[i + 1] \in {"M", "m"}
              THEN StrpMatch(s, i + 2, fmt, k + 1,
                             [got EXCEPT !.p = IF s[i] \in {"P", "p"} THEN 1 ELSE 0])
              ELSE [ok |-> FALSE, got |-> got]
         ELSE IF d = " "
         THEN LET n == RunLen(s, i, IsSpace)
              IN  IF n = 0 THEN [ok |-> FALSE, got |-> got]
                  ELSE StrpMatch(s, i + n, fmt, k + 1, got)
         ELSE IF d \in {"/", "-", ":"}
         THEN IF i <= Len(s) /\ s[i] = d THEN StrpMatch(s, i + 1, fmt, k + 1, got)
              ELSE [ok |-> FALSE, got |-> got]
         ELSE LET n == DirectiveTake(d, RunLen(s, i, IsDigit))
                  run == SubSeq(s, i, i + n - 1)
              IN  IF n > 0 /\ DirectiveOk(d, run)
                  THEN StrpMatch(s, i + n, fmt, k + 1, [got EXCEPT ![d] = DigitsVal(run)])
                  ELSE [ok |-> FALSE, got |-> got]

IsLeap(y) == (y % 4 = 0 /\ y % 100 # 0) \/ y % 400 = 0

DaysInMonth(y, m) ==
    IF m = 2 THEN (IF IsLeap(y) THEN 29 ELSE 28)
    ELSE IF m \in {4, 6, 9, 11} THEN 30 ELSE 31

\* days from 1970-01-01 to the civil date y-m-d (proleptic Gregorian)
DaysFromCivil(y, m, d) ==
    LET yy == IF m <= 2 THEN y - 1 ELSE y
        era == yy \div 400
        yoe == yy - era * 400
        mp == IF m > 2 THEN m - 3 ELSE m + 9
        doy == (153 * mp + 2) \div 5 + d - 1
        doe == yoe * 365 + yoe \div 4 - yoe \div 100 + doy
    IN  era * 146097 + doe - 719468

\* The datetime of the directives' values g (-1 for a directive the format
\* lacks): its wall-clock second count, or ok = FALSE where the datetime
\* constructor raises ValueError.
DateOf(g) ==
    LET year == IF g["Y"] >= 0 THEN g["Y"]
                ELSE IF g["y"] >= 69 THEN 1900 + g["y"] ELSE 2000 + g["y"]
        hour == IF g["I"] >= 0
                THEN (IF g["I"] = 12 THEN 0 ELSE g["I"]) + 12 * g["p"]
                ELSE g["H"]
        sec == IF g["S"] >= 0 THEN g["S"] ELSE 0
    IN  IF year >= 1 /\ g["d"] <= DaysInMonth(year, g["m"]) /\ sec <= 59
        THEN [ok |-> TRUE,
              secs |-> ((DaysFromCivil(year, g["m"], g["d"]) * 24 + hour) * 60 + g["M"]) * 60 + sec]
        ELSE [ok |-> FALSE, secs |-> 0]

\* datetime.strptime(s, fmt): the wall-clock second count of the parsed
\* datetime, or ok = FALSE for the ValueError
strptime(s, fmt) ==
    With(StrpMatch(s, 1, fmt, 1, [x \in {"m","d","y","Y","H","I","M","S","p"} |-> 0 - 1]),
         LAMBDA r : IF r.ok THEN DateOf(r.got) ELSE [ok |-> FALSE, secs |-> 0])

\* timestamp(s, tz): the first format that parses, with tz attached when
\* one is given; ok = FALSE for the ValueError raised when none parses
RECURSIVE timestampFrom(_, _, _)
timestampFrom(s, tz, k) ==
    IF k > Len(TIME_FMTS) THEN [ok |-> FALSE, secs |-> 0, tz |-> None]
    ELSE With(strptime(s, TIME_FMTS[k]),
              LAMBDA dt : IF dt.ok THEN [ok |-> TRUE, secs |-> dt.secs, tz |-> tz]
                          ELSE timestampFrom(s, tz, k + 1))

timestamp(s, tz) == timestampFrom(s, tz, 1)

\* ts.astimezone(zone).  For a zone-naive ts the outcome depends on the
\* interpreter: Python 2 raises ValueError, Python 3.6+ takes ts as system
\* local time; local is None for the former and the system's offset in
\* hours for the latter.
astimezone(ts, zone, local) ==
    IF ts.tz = None /\ local = None THEN [ok |-> FALSE, secs |-> 0, tz |-> None]
    ELSE LET from == IF ts.tz = None THEN local[1] ELSE ts.tz[1].offset_hrs
         IN  [ok |-> TRUE, secs |-> ts.secs + (zone.offset_hrs - from) * 3600, tz |-> Some(zone)]

\* float(s): surrounding whitespace stripped, optional sign, decimal digits
\* with an optional point; the value is num / 10^exp with no trailing zero
\* in the fraction.  ok = FALSE for the ValueError.
RECURSIVE Normalise(_, _)
Normalise(num, exp) ==
    IF exp > 0 /\ num % 10 = 0 THEN Normalise(num \div 10, exp - 1)
    ELSE [num |-> num, exp |-> exp]

\* float of unsigned text whose leading digit run has length ni and whose
\* fraction has nf digits, negated when neg
FloatBody(body, ni, nf, neg) ==
    IF ni + (IF nf > 0 \/ (ni < Len(body) /\ body[ni + 1] = ".") THEN 1 + nf ELSE 0) = Len(body)
       /\ ni + nf > 0
    THEN With(Normalise(DigitsVal(SubSeq(body, 1, ni) \o SubSeq(body, ni + 2, ni + 1 + nf)), nf),
              LAMBDA m : [ok |-> TRUE,
                          v |-> [num |-> IF neg THEN 0 - m.num ELSE m.num, exp |-> m.exp]])
    ELSE [ok |-> FALSE, v |-> [num |-> 0, exp |-> 0]]

\* float(t) for a str t without surrounding whitespace
FloatOf(t) ==
    LET signed == Len(t) > 0 /\ t[1] \in {"+", "-"}
        body == IF signed THEN SubSeq(t, 2, Len(t)) ELSE t
    IN  With(RunLen(body, 1, IsDigit), LAMBDA ni :
        With(IF ni < Len(body) /\ body[ni + 1] = "." THEN RunLen(body, ni + 2, IsDigit) ELSE 0,
             LAMBDA nf : FloatBody(body, ni, nf, signed /\ t[1] = "-")))

PyFloat(s) == With(Strip(s), FloatOf)

(***************************************************************************)
(* HoboCSVReader.__iter__: the generator body                              *)
(***************************************************************************)
NoSample == [ts |-> [secs |-> 0, tz |-> None], temp |-> [num |-> 0, exp |-> 0],
             rh |-> None, batt |-> None]

\* a loop that lacks the test of the first field
RowClass_NoFirstFieldTest(row, self) ==
    IF self.itemp[1] >= Len(row) THEN "IndexError"
    ELSE IF Strip(row[self.itemp[1] + 1]) = <<>> THEN "skip"
    ELSE "decode"

\* What the loop does with a row before decoding it: row[self._itemp] raises
\* IndexError on a row too short to have that field; a blank temperature
\* field or a blank first field sends the loop to the next row.
RowClass(row, self) ==
    IF self.itemp[1] >= Len(row) THEN "IndexError"
    ELSE IF Strip(row[self.itemp[1] + 1]) = <<>> THEN "skip"
    ELSE IF Strip(row[1]) = <<>> THEN "skip"
    ELSE "decode"

\* The end of the loop body, after the timestamp and the temperature: the
\* humidity is parsed when its column is resolved and its field is not
\* empty, the battery voltage whenever its column is resolved.
DecodeRest(row, self, ts, temp) ==
    LET fail(e) == [exc |-> e, sample |-> NoSample]
        hasrh == self.irh # None /\ row[self.irh[1] + 1] # <<>>
        absent == [ok |-> TRUE, v |-> [num |-> 0, exp |-> 0]]
    IN  IF self.irh # None /\ self.irh[1] >= Len(row) THEN fail("IndexError")
        ELSE With(IF hasrh THEN PyFloat(row[self.irh[1] + 1]) ELSE absent, LAMBDA rh :
             IF ~rh.ok THEN fail("ValueError: float")
             ELSE IF self.ibatt # None /\ self.ibatt[1] >= Len(row) THEN fail("IndexError")
             ELSE With(IF self.ibatt # None THEN PyFloat(row[self.ibatt[1] + 1]) ELSE absent,
                       LAMBDA batt :
                  IF ~batt.ok THEN fail("ValueError: float")
                  ELSE [exc |-> "",
                        sample |-> [ts |-> [secs |-> ts.secs, tz |-> ts.tz],
                                    temp |-> temp.v,
                                    rh |-> IF hasrh THEN Some(rh.v) ELSE None,
                                    batt |-> IF self.ibatt # None THEN Some(batt.v) ELSE None]]))

\* The loop body for a row that is not skipped: the Sample it yields, or
\* the exception it raises (exc # "").
DecodeRow(row, self, local) ==
    LET fail(e) == [exc |-> e, sample |-> NoSample]
        its == self.itimestamp[1]
    IN  IF its >= Len(row) THEN fail("IndexError")
        ELSE With(timestamp(row[its + 1], self.tz), LAMBDA ts0 :
             IF ~ts0.ok THEN fail("ValueError: time data does not match formats")
             ELSE With(IF self.as_timezone # None
                       THEN astimezone(ts0, self.as_timezone[1], local)
                       ELSE ts0, LAMBDA ts :
                  IF ~ts.ok THEN fail("ValueError: astimezone() of a naive datetime")
                  ELSE With(PyFloat(row[self.itemp[1] + 1]), LAMBDA temp :
                       IF ~temp.ok THEN fail("ValueError: float")
                       ELSE DecodeRest(row, self, ts, temp))))

\* One resumption of the generator on an open file: rows are read from the
\* csv reader until one is yielded, one raises, or the reader is exhausted.
\* log gains one entry per record read.
RECURSIVE GenRun(_, _, _, _, _, _)
GenRow(lines, rec, self, strict, local, log) ==
    LET entry(o) == [fields |-> rec.fields, outcome |-> o]
        raise(e, l) == [kind |-> "raise", exc |-> e, sample |-> NoSample,
                        pos |-> rec.last, log |-> l]
    IN  IF rec.err # "" THEN raise("csv.Error", log)
        ELSE With(RowClass(rec.fields, self), LAMBDA class :
             IF class = "skip"
             THEN GenRun(lines, rec.last, self, strict, local, Append(log, entry("skipped")))
             ELSE IF class = "IndexError"
             THEN raise("IndexError", Append(log, entry("error")))
             ELSE With(DecodeRow(rec.fields, self, local), LAMBDA d :
                  IF d.exc # "" THEN raise(d.exc, Append(log, entry("error")))
                  ELSE [kind |-> "yield", exc |-> "", sample |-> d.sample,
                        pos |-> rec.last, log |-> Append(log, entry("yielded"))]))

GenRun(lines, pos, self, strict, local, log) ==
    IF pos >= Len(lines)
    THEN [kind |-> "stop", exc |-> "StopIteration", sample |-> NoSample,
          pos |-> pos, log |-> log]
    ELSE With(ReadRecord(lines, pos, strict),
              LAMBDA rec : GenRow(lines, rec, self, strict, local, log))

\* a generator that reads one record ahead of the one it yields
GenNext_ReadAhead(lines, pos, self, strict, local, log, isopen) ==
    IF isopen
    THEN With(GenRun(lines, pos, self, strict, local, log), LAMBDA r :
            IF r.kind = "yield" /\ r.pos < Len(lines)
            THEN [r EXCEPT !.pos = ReadRecord(lines, r.pos, strict).last]
            ELSE r)
    ELSE [kind |-> "raise", exc |-> "ValueError: I/O operation on closed file",
          sample |-> NoSample, pos |-> pos, log |-> log]

\* next() on a generator of the session: on a closed file the csv reader's
\* next(self._f) raises ValueError before anything is read
GenNext(lines, pos, self, strict, local, log, isopen) ==
    IF isopen THEN GenRun(lines, pos, self, strict, local, log)
    ELSE [kind |-> "raise", exc |-> "ValueError: I/O operation on closed file",
          sample |-> NoSample, pos |-> pos, log |-> log]

\* [row for row in self]: a fresh generator resumed until it stops or raises
RECURSIVE Drain(_, _, _, _, _, _, _, _)
Drain(lines, pos, self, strict, local, log, isopen, rows) ==
    With(GenNext(lines, pos, self, strict, local, log, isopen), LAMBDA r :
        IF r.kind = "yield"
        THEN Drain(lines, r.pos, self, strict, local, r.log, isopen, Append(rows, r.sample))
        ELSE [exc |-> IF r.kind = "stop" THEN "" ELSE r.exc, rows |-> rows,
              pos |-> r.pos, log |-> r.log])

\* zip(*rows): the four columns, or nothing at all for no rows
Zip(rows) ==
    IF rows = <<>> THEN <<>>
    ELSE << [i \in 1..Len(rows) |-> rows[i].ts], [i \in 1..Len(rows) |-> rows[i].temp],
            [i \in 1..Len(rows) |-> rows[i].rh], [i \in 1..Len(rows) |-> rows[i].batt] >>

(***************************************************************************)
(* HoboCSVReader.__init__                                                  *)
(***************************************************************************)
NoneArg == [kind |-> "none", n |-> 0, s |-> <<>>]

NewSelf == [itimestamp |-> None, itemp |-> None, irh |-> None, ibatt |-> None,
            title |-> None, sn |-> None, tz |-> None, as_timezone |-> None]

\* The end of the constructor, for the header line's time zone text
\* tz_match (None when the line has none): self.tz, self.as_timezone.
SetZones(h, tz_match, as_timezone, id) ==
    LET tz == TZFixedOffset(StrArg(tz_match[1]))
        made == IF tz_match # None THEN 1 ELSE 0
        s1 == IF tz_match # None
              THEN [h.self EXCEPT !.tz = Some([id |-> id, offset_hrs |-> tz.offset_hrs])]
              ELSE h.self
        conv == as_timezone.kind \in {"num", "str"}
        az == TZFixedOffset(as_timezone)
        s2 == IF conv
              THEN [s1 EXCEPT !.as_timezone = Some([id |-> id + made, offset_hrs |-> az.offset_hrs])]
              ELSE s1
        res(e, s, n) == [exc |-> e, self |-> s, pos |-> h.pos, made |-> n]
    IN  IF tz_match # None /\ ~tz.ok THEN res("ValueError: timezone text", h.self, 0)
        ELSE IF conv /\ ~az.ok THEN res("ValueError: timezone text", s1, made)
        ELSE res("", s2, made + (IF conv THEN 1 ELSE 0))

\* The constructor after open(): the attributes it sets, the file position
\* it leaves, the number of TZFixedOffset objects it makes, and the
\* exception it raises (exc # "").  Nothing in it closes the file.
Construct(lines, as_timezone, id) ==
    With(find_headers(lines, 0, NewSelf, <<>>), LAMBDA h :
        LET res(e) == [exc |-> e, self |-> h.self, pos |-> h.pos, made |-> 0]
        IN  IF h.exc # "" THEN res(h.exc)
            ELSE IF h.self.itimestamp = None
            THEN res("ValueError: Unable to find required timestamp column!")
            ELSE IF h.self.itemp = None
            THEN res("ValueError: Unable to find required temperature column!")
            ELSE With(TZ_REGEX(h.header),
                      LAMBDA tz_match : SetZones(h, tz_match, as_timezone, id)))

(***************************************************************************)
(* Inputs                                                                  *)
(***************************************************************************)
\* Serial Number:12
L_serial ==
    <<"S","e","r","i","a","l"," ","N","u","m","b","e","r",":","1","2">>

\* Temp. log
L_title ==
    <<"T","e","m","p","."," ","l","o","g">>

\* Date Time notes
L_ts_only ==
    <<"D","a","t","e"," ","T","i","m","e"," ","n","o","t","e","s">>

\* #,"Date Time, GMT-08:00","Temp, F","RH, %","Batt, V"
L_full ==
    <<"#",",","\"","D","a","t","e"," ","T","i","m","e",","," ","G","M","T",
      "-","0","8",":","0","0","\"",",","\"","T","e","m","p",","," ","F",
      "\"",",","\"","R","H",","," ","%","\"",",","\"","B","a","t","t",",",
      " ","V","\"">>

\* "Date Time, GMT+05:30",Temperature
L_badtz ==
    <<"\"","D","a","t","e"," ","T","i","m","e",","," ","G","M","T","+","0",
      "5",":","3","0","\"",",","T","e","m","p","e","r","a","t","u","r","e">>

\* #,Date Time,Temp.,High Res. Temp.
L_hires ==
    <<"#",",","D","a","t","e"," ","T","i","m","e",",","T","e","m","p",".",
      ",","H","i","g","h"," ","R","e","s","."," ","T","e","m","p",".">>

\* 1,03/15/16 02:30:00 PM,55.5,40,3.1
R_ampm ==
    <<"1",",","0","3","/","1","5","/","1","6"," ","0","2",":","3","0",":",
      "0","0"," ","P","M",",","5","5",".","5",",","4","0",",","3",".","1">>

\* 2,2019-07-04 14:05:09,56,,3
R_iso ==
    <<"2",",","2","0","1","9","-","0","7","-","0","4"," ","1","4",":","0",
      "5",":","0","9",",","5","6",",",",","3">>

\* 3,3/15/2016 14:30,,,
R_event ==
    <<"3",",","3","/","1","5","/","2","0","1","6"," ","1","4",":","3","0",
      ",",",",",">>

\*  ,2019-07-04 14:05:09,7,,3
R_blank ==
    <<" ",",","2","0","1","9","-","0","7","-","0","4"," ","1","4",":","0",
      "5",":","0","9",",","7",",",",","3">>

\* (one space)
R_short ==
    <<" ">>

\* 5,3/15/2016 14:30,1,2,
R_nobatt ==
    <<"5",",","3","/","1","5","/","2","0","1","6"," ","1","4",":","3","0",",","1",",","2",",">>

\* 6,"x
R_quote ==
    <<"6",",","\"","x">>

HeaderLines == {L_serial, L_title, L_ts_only, L_full, L_badtz, L_hires}

BodyLines == {R_ampm, R_iso, R_event, R_blank, R_short, R_nobatt, R_quote}

SeqsUpTo(S, n) == UNION {[1..k -> S] : k \in 0..n}

\* the files of a session: a preamble, then up to MaxBody body lines
Preambles == {<<L_full>>, <<L_serial, L_hires>>, <<L_badtz>>, <<L_ts_only>>, <<L_serial>>}

Files == {p \o b : p \in Preambles, b \in SeqsUpTo(BodyLines, MaxBody)}

\* the files of a header scan: up to MaxLines lines of any kind
ScanFiles == SeqsUpTo(HeaderLines \cup {R_ampm}, MaxLines)

\* (as_timezone, strict, system zone) of a session; the system zone is None
\* for an interpreter whose astimezone() refuses zone-naive datetimes
Configs ==
    { <<NoneArg, TRUE, None>>,
      <<NumArg(0 - 5), FALSE, None>>,
      <<NumArg(0 - 5), TRUE, Some(0)>>,
      <<StrArg(<<"U","T","C">>), TRUE, None>> }

MaxHours == 23        \* numeric constructor arguments range over -MaxHours..MaxHours

\* Texts given to TZFixedOffset: the HOBO notation with and without a space
\* after GMT, and texts that depart from it in one or more places.
HoboTexts ==
    {GMT \o sp \o <<sign, d1, d2, ":", "0", "0">> :
        sp \in {<<>>, <<" ">>}, sign \in {"+", "-"}, d1 \in {"0", "1", "2"},
        d2 \in {"0", "5", "8"}}

OtherTexts ==
    {pre \o <<c3, d1, d2, sep>> \o mins :
        pre \in {GMT, <<"U","T","C">>}, c3 \in {"+", "-", " ", "0"},
        d1 \in {"0", "x"}, d2 \in {"8", " "}, sep \in {":", "x"},
        mins \in {<<"0","0">>, <<"3","0">>, <<"0">>}}

TZArgs ==
    {StrArg(t) : t \in HoboTexts \cup OtherTexts}
        \cup {NumArg(n) : n \in (0 - MaxHours)..MaxHours} \cup {NoneArg}

\* the arguments of the second construction
TZArgsB ==
    {NumArg(n) : n \in (0 - MaxHours)..MaxHours}
        \cup {StrArg(t) : t \in {TZStr(0 - 8), TZStr(5)}}

NoTZ == [state |-> "none", arg |-> NoneArg, id |-> 0, offset_hrs |-> 0]

(***************************************************************************)
(* State                                                                   *)
(***************************************************************************)
VARIABLES
    file,        \* the lines of the input file
    readable,    \* whether open(fname) succeeds
    cfg,         \* <<as_timezone argument, strict, system zone>>
    pc,          \* "new", "failed" (the constructor raised), "with", "exited"
    f_state,     \* self._f: "unopened", "open", "closed"
    fpos,        \* lines of the file consumed so far
    releases,    \* times the stream has been released
    self,        \* the attributes of the session
    body_start,  \* fpos when the constructor returned
    gen,         \* the consumer's generator: "none", "suspended", "finished"
    closeCalls,  \* calls of __exit__
    out,         \* the Samples the session's generators have yielded
    log,         \* the records its generators have read, with what became of each
    exc,         \* the exception the last operation raised, "" for none
    unzipped,    \* the value the last unzip() returned
    nextId,      \* identity of the next TZFixedOffset object
    tza, tzb     \* two separately constructed TZFixedOffset objects

vars == <<file, readable, cfg, pc, f_state, fpos, releases, self, body_start, gen,
          closeCalls, out, log, exc, unzipped, nextId, tza, tzb>>

session == <<pc, f_state, fpos, releases, self, body_start, gen, closeCalls, out, log,
             exc, unzipped>>

\* nothing constructed yet
Fresh ==
    /\ pc = "new"
    /\ f_state = "unopened"
    /\ fpos = 0
    /\ releases = 0
    /\ self = NewSelf
    /\ body_start = 0
    /\ gen = "none"
    /\ closeCalls = 0
    /\ out = <<>>
    /\ log = <<>>
    /\ exc = ""
    /\ unzipped = None
    /\ nextId = 1
    /\ tza = NoTZ
    /\ tzb = NoTZ

Init ==
    /\ file \in Files
    /\ cfg \in Configs
    /\ (cfg[1].kind = "num" /\ cfg[3] = None) => file[1] = L_serial /\ Len(file) > 1
    /\ readable \in BOOLEAN
    /\ ~readable => file = <<L_full>> /\ cfg[1] = NoneArg /\ cfg[2]
    /\ Fresh

(***************************************************************************)
(* Operations of a session                                                 *)
(***************************************************************************)
\* HoboCSVReader(fname, as_timezone, strict), entering the with block when
\* it returns
Open ==
    /\ pc = "new"
    /\ IF ~readable
       THEN /\ pc' = "failed"
            /\ exc' = "IOError"
            /\ UNCHANGED <<f_state, fpos, self, body_start, nextId>>
       ELSE \E c \in {Construct(file, cfg[1], nextId)} :
                /\ f_state' = "open"
                /\ fpos' = c.pos
                /\ self' = c.self
                /\ exc' = c.exc
                /\ pc' = IF c.exc = "" THEN "with" ELSE "failed"
                /\ body_start' = c.pos
                /\ nextId' = nextId + c.made
    /\ UNCHANGED <<file, readable, cfg, releases, gen, closeCalls, out, log, unzipped,
                   tza, tzb>>

\* iter(reader): a new generator, nothing read yet
StartIter ==
    /\ pc \in {"with", "exited"}
    /\ gen # "suspended"
    /\ gen' = "suspended"
    /\ UNCHANGED <<file, readable, cfg, pc, f_state, fpos, releases, self, body_start,
                   closeCalls, out, log, exc, unzipped, nextId, tza, tzb>>

\* next() on the consumer's generator
NextReq ==
    /\ pc \in {"with", "exited"}
    /\ gen = "suspended"
    /\ \E r \in {GenNext(file, fpos, self, cfg[2], cfg[3], log, f_state = "open")} :
           /\ out' = IF r.kind = "yield" THEN Append(out, r.sample) ELSE out
           /\ gen' = IF r.kind = "yield" THEN "suspended" ELSE "finished"
           /\ exc' = r.exc
           /\ fpos' = r.pos
           /\ log' = r.log
    /\ UNCHANGED <<file, readable, cfg, pc, f_state, releases, self, body_start,
                   closeCalls, unzipped, nextId, tza, tzb>>

\* reader.unzip(): a generator of its own, drained
Unzip ==
    /\ pc \in {"with", "exited"}
    /\ \E r \in {Drain(file, fpos, self, cfg[2], cfg[3], log, f_state = "open", <<>>)} :
           /\ out' = out \o r.rows
           /\ exc' = r.exc
           /\ fpos' = r.pos
           /\ log' = r.log
           /\ unzipped' = IF r.exc = "" THEN Some(Zip(r.rows)) ELSE unzipped
    /\ UNCHANGED <<file, readable, cfg, pc, f_state, releases, self, body_start, gen,
                   closeCalls, nextId, tza, tzb>>

\* a close that releases the stream whatever its state
FileClose_Again(state, n) == [f_state |-> "closed", releases |-> n + 1]

\* self._f.close(): releases an open stream, does nothing to a closed one
FileClose(state, n) ==
    IF state = "open"
    THEN [f_state |-> "closed", releases |-> n + 1]
    ELSE [f_state |-> state, releases |-> n]

\* reader.__exit__(...): the end of the with block, or a later explicit call
Exit ==
    /\ pc \in {"with", "exited"}
    /\ closeCalls < MaxCloseCalls
    /\ closeCalls' = closeCalls + 1
    /\ pc' = "exited"
    /\ \E c \in {FileClose(f_state, releases)} :
           /\ f_state' = c.f_state
           /\ releases' = c.releases
    /\ exc' = ""
    /\ UNCHANGED <<file, readable, cfg, fpos, self, body_start, gen, out, log, unzipped,
                   nextId, tza, tzb>>

Next == Open \/ StartIter \/ NextReq \/ Unzip \/ Exit

Spec == Init /\ [][Next]_vars

(***************************************************************************)
(* The header scan on its own: the constructor on files of any lines       *)
(***************************************************************************)
InitScan ==
    /\ file \in ScanFiles
    /\ cfg \in Configs
    /\ readable = TRUE
    /\ Fresh

NextScan == Open

SpecScan == InitScan /\ [][NextScan]_vars

(***************************************************************************)
(* TZFixedOffset on its own: two objects constructed from arguments        *)
(***************************************************************************)
NewTZ(arg, id) ==
    LET r == TZFixedOffset(arg)
    IN  IF r.ok THEN [state |-> "made", arg |-> arg, id |-> id, offset_hrs |-> r.offset_hrs]
        ELSE [state |-> "raised", arg |-> arg, id |-> 0, offset_hrs |-> 0]

InitTZ ==
    /\ file = <<>>
    /\ cfg = <<NoneArg, TRUE, None>>
    /\ readable = TRUE
    /\ Fresh

MakeA ==
    /\ tza.state = "none"
    /\ \E arg \in TZArgs :
          /\ tza' = NewTZ(arg, nextId)
          /\ nextId' = IF tza'.state = "made" THEN nextId + 1 ELSE nextId
    /\ UNCHANGED <<file, readable, cfg, session, tzb>>

MakeB ==
    /\ tzb.state = "none"
    /\ \E arg \in TZArgsB :
          /\ tzb' = NewTZ(arg, nextId)
          /\ nextId' = IF tzb'.state = "made" THEN nextId + 1 ELSE nextId
    /\ UNCHANGED <<file, readable, cfg, session, tza>>

NextTZ == MakeA \/ MakeB

SpecTZ == InitTZ /\ [][NextTZ]_vars

(***************************************************************************)
(* Properties                                                              *)
(***************************************************************************)
\* the fields csv.reader gives for one line on its own
Fields(line) == Tok(<<line>>, 1, 1, "START_RECORD", <<>>, <<>>, FALSE).fields

\* text that is empty or whitespace only
Blank(t) == \A i \in 1..Len(t) : IsSpace(t[i])

MissingTimestamp == "ValueError: Unable to find required timestamp column!"
MissingTemperature == "ValueError: Unable to find required temperature column!"

ResolvesTimestamp(line) == find_col_timestamp(Fields(line)) # None
ResolvesTemperature(line) == find_col_temperature(Fields(line)) # None
ResolvesBoth(line) == ResolvesTimestamp(line) /\ ResolvesTemperature(line)

\* C1: when the constructor has read a file none of whose lines resolves
\* both the timestamp and the temperature column, it has failed with the
\* ValueError naming the timestamp or the temperature column, and with the
\* one naming the timestamp column when no line contains 'Date Time'.
C1_MissingColumnNamed ==
    (pc # "new" /\ readable /\ \A i \in 1..Len(file) : ~ResolvesBoth(file[i]))
        => /\ pc = "failed"
           /\ exc \in {MissingTimestamp, MissingTemperature}
           /\ (\A i \in 1..Len(file) : ~Contains(<<"D","a","t","e"," ","T","i","m","e">>, file[i]))
                 => exc = MissingTimestamp

\* C2: a session that has ended, because its constructor raised or because
\* its with block was left, does not hold its stream open.
C2_StreamReleasedOnEveryExit ==
    pc \in {"failed", "exited"} => f_state # "open"

\* the two conditions under which a record is to be skipped
BlankTemperature(row) ==
    Len(row) > self.itemp[1] /\ Blank(row[self.itemp[1] + 1])
BlankFirstField(row) == Len(row) >= 1 /\ Blank(row[1])

\* C3: every record read whose temperature field is blank or whose first
\* field is blank, whatever its number of fields, was skipped without an
\* error, and no other record was skipped.
C3_BlankRecordsSkipped ==
    \A k \in 1..Len(log) :
        (BlankTemperature(log[k].fields) \/ BlankFirstField(log[k].fields))
            <=> log[k].outcome = "skipped"

\* the records of the lines after position pos, read one after the other
RECURSIVE RecordsFrom(_, _, _)
RecordsFrom(lines, pos, strict) ==
    IF pos >= Len(lines) THEN <<>>
    ELSE With(ReadRecord(lines, pos, strict), LAMBDA rec :
            (IF rec.err = "" THEN <<rec.fields>> ELSE <<>>)
                \o RecordsFrom(lines, rec.last, strict))

Accepted(row) == ~BlankTemperature(row) /\ ~BlankFirstField(row) /\ Len(row) > self.itemp[1]

AcceptedRecords == SelectSeq(RecordsFrom(file, body_start, cfg[2]), Accepted)

\* C4: once the body has been read to its end, if every accepted record
\* decodes without error, the Samples yielded are the decodings of the
\* accepted records, one each, in the order of the records; and the columns
\* unzip() returned are those of the last Samples yielded, in that order.
C4_OneSamplePerAcceptedRecord ==
    /\ (pc \in {"with", "exited"} /\ fpos = Len(file))
          => With(AcceptedRecords, LAMBDA acc :
                (\A k \in 1..Len(acc) : DecodeRow(acc[k], self, cfg[3]).exc = "")
                    => /\ Len(out) = Len(acc)
                       /\ \A k \in 1..Len(acc) :
                             out[k] = DecodeRow(acc[k], self, cfg[3]).sample)
    /\ (unzipped # None /\ unzipped[1] # <<>>)
          => \E n \in 1..Len(out) :
                /\ \A c \in 1..4 : Len(unzipped[1][c]) = n
                /\ \A i \in 1..n :
                      LET smp == out[Len(out) - n + i]
                      IN  <<unzipped[1][1][i], unzipped[1][2][i],
                            unzipped[1][3][i], unzipped[1][4][i]>>
                              = <<smp.ts, smp.temp, smp.rh, smp.batt>>

\* C4 happens: a body of two accepted records read to its end, giving two
\* different Samples, returned by unzip() as columns
C4_Witness ==
    /\ pc = "with" /\ fpos = Len(file) /\ Len(AcceptedRecords) = 2
    /\ Len(out) = 2 /\ out[1] # out[2]
    /\ unzipped # None /\ unzipped[1] # <<>>

IsHoboText(t) ==
    /\ Len(t) = 9
    /\ SubSeq(t, 1, 3) = GMT
    /\ t[4] \in {"+", "-"}
    /\ IsDigit(t[5]) /\ IsDigit(t[6])
    /\ t[7] = ":"
    /\ t[8] = "0" /\ t[9] = "0"

\* C5: constructing a TZFixedOffset from text succeeds exactly for the
\* 9-character texts GMT, sign, two digits, ':', '00', and raises for every
\* other text.
C5_OnlyHoboTextAccepted ==
    (tza.state # "none" /\ tza.arg.kind = "str")
        => (tza.state = "made" <=> IsHoboText(tza.arg.s))

\* C6: two TZFixedOffset objects are equal if and only if their offset_hrs
\* are equal, however each was constructed.
C6_EqualIffSameHours ==
    (tza.state = "made" /\ tzb.state = "made")
        => (TZEq(tza, tzb) <=> tza.offset_hrs = tzb.offset_hrs)

\* the signed hour count written in a text that ends sign, two digits, ':00'
SignedHours(t) ==
    LET n == Len(t)
        h == 10 * DigitVal(t[n - 4]) + DigitVal(t[n - 3])
    IN  IF t[n - 5] = "-" THEN 0 - h ELSE h

\* C7: for every sign and two-digit hour count, the text GMT, an optional
\* space, the sign, the digits and ':00' constructs a TZFixedOffset whose
\* offset_hrs is the signed hour count, as constructing from that integer does.
C7_BothTextFormsAccepted ==
    (tza.state # "none" /\ tza.arg.kind = "str" /\ tza.arg.s \in HoboTexts)
        => /\ tza.state = "made"
           /\ tza.offset_hrs = SignedHours(tza.arg.s)
           /\ tza.offset_hrs = TZFixedOffset(NumArg(SignedHours(tza.arg.s))).offset_hrs

\* C8: once the stream is closed it has been released exactly once, and no
\* later operation releases it again, reopens it, reads from it or yields
\* a Sample.
C8_ClosedOnceAndForAll ==
    [][f_state = "closed"
          => /\ releases = 1
             /\ f_state' = "closed"
             /\ releases' = releases
             /\ fpos' = fpos
             /\ log' = log
             /\ out' = out]_vars

\* C8 happens: __exit__ has been called twice and a generator resumed
\* after that, with records still unread
C8_Witness ==
    /\ closeCalls = 2 /\ f_state = "closed" /\ releases = 1
    /\ exc = "ValueError: I/O operation on closed file"
    /\ gen = "finished"
    /\ fpos < Len(file)

\* the first line that satisfies P, 0 when none does
FirstLine(P(_)) ==
    With({i \in 1..Len(file) : P(file[i])}, LAMBDA hit :
        IF hit = {} THEN 0 ELSE CHOOSE i \in hit : \A j \in hit : i <= j)

\* C9 as stated: the scan stops on the first line on which both the
\* timestamp and the temperature column resolve and on no earlier line, and
\* reads the whole file when there is no such line.
C9_StopsWhereBothResolve ==
    (pc # "new" /\ readable)
        => With(FirstLine(ResolvesBoth), LAMBDA i :
                fpos = IF i = 0 THEN Len(file) ELSE i)

\* C9 as amended: the scan stops on the first line on which the timestamp
\* column resolves, whether or not the temperature column resolves on it,
\* and reads the whole file when there is no such line; the four indices are
\* those resolved on the line it stops on; if the temperature column is not
\* resolved there, the constructor fails for the missing temperature column,
\* whatever lines remain.
C9_StopsWhereTimestampResolves ==
    (pc # "new" /\ readable)
        => With(FirstLine(ResolvesTimestamp), LAMBDA i :
                IF i = 0 THEN fpos = Len(file) /\ pc = "failed"
                ELSE /\ fpos = i
                     /\ With(Fields(file[i]), LAMBDA headers :
                            /\ self.itimestamp = find_col_timestamp(headers)
                            /\ self.itemp = find_col_temperature(headers)
                            /\ self.irh = find_col_rh(headers)
                            /\ self.ibatt = find_col_battery(headers))
                     /\ ~ResolvesTemperature(file[i])
                           => pc = "failed" /\ exc = MissingTemperature)

\* C9 happens: the scan stopped on a line that resolves the timestamp column
\* alone, with a line that resolves both still unread
C9_Witness ==
    /\ pc = "failed" /\ exc = MissingTemperature
    /\ fpos < Len(file)
    /\ ResolvesBoth(file[fpos + 1])

\* C10 as stated: a next request that yields a Sample has read exactly one
\* more record.
C10_OneRecordPerRequest ==
    [][(NextReq /\ Len(out') = Len(out) + 1) => Len(log') = Len(log) + 1]_vars

\* C10 as amended: a next request that yields a Sample has read the records
\* that follow the last one read, one after the other, up to and including
\* the first that is not to be skipped: every record before that one is a
\* skipped record, that one is the record whose decoding is yielded, and
\* nothing after it is read; making a generator or closing reads nothing.
C10_PullsUpToNextAccepted ==
    [][/\ (NextReq /\ Len(out') = Len(out) + 1)
             => /\ Len(log') > Len(log)
                /\ SubSeq(log', 1, Len(log)) = log
                /\ [k \in 1..(Len(log') - Len(log)) |-> log'[Len(log) + k].fields]
                      = RecordsFrom(SubSeq(file, 1, fpos'), fpos, cfg[2])
                /\ \A k \in (Len(log) + 1)..(Len(log') - 1) :
                      /\ log'[k].outcome = "skipped"
                      /\ BlankTemperature(log'[k].fields) \/ BlankFirstField(log'[k].fields)
                /\ log'[Len(log')].outcome = "yielded"
                /\ Accepted(log'[Len(log')].fields)
                /\ out'[Len(out')] = DecodeRow(log'[Len(log')].fields, self, cfg[3]).sample
       /\ (StartIter \/ Exit) => fpos' = fpos /\ log' = log]_vars

\* C10 happens: one next request has read a skipped record and then the
\* record it yielded
C10_Witness ==
    /\ unzipped = None /\ exc = "" /\ gen = "suspended"
    /\ Len(out) = 1 /\ Len(log) = 2
    /\ log[1].outcome = "skipped" /\ log[2].outcome = "yielded"

=============================================================================
